---- MODULE Spec2Model ----
(***************************************************************************)
(* rss_summarizer.py: a scheduler runs fetch -> filter -> summarize ->      *)
(* merge-into-feed cycles while an HTTP server thread serves the output     *)
(* feed file.  Time is counted in whole hours (UTC instants are integers).  *)
(***************************************************************************)
EXTENDS Integers, Sequences, FiniteSets, TLC

\* ---------------------------------------------------------------- bounds
MaxTime == 1
MaxCycles == 3

\* ------------------------------------------------------- program constants
DefaultLookbackHours == 24

\* The two jobs main() registers with the scheduler.
Jobs == {"initial_summary_run", "recurring_summary_run"}

\* Local UTC offsets (hours) the process may run under.
TZOffsets == {-2, 0, 2}

\* Values of the RSS_LOOKBACK_HOURS environment variable.
LookbackEnv == {"unset", "abc", "0", "-5", "2"}

\* State of feeds.yml as load_feeds_from_yaml finds it.
ConfigStates == {"ok", "missing", "bad_yaml", "no_urls"}

\* The URLs a valid feeds.yml lists, in configuration order.
FeedUrls == << "url_1", "url_2" >>
NumSources == Len(FeedUrls)

\* ------------------------------------------------------------ source feeds
Aware(t) == [kind |-> "aware", t |-> t]
Naive(t) == [kind |-> "naive", t |-> t]
BadDate == [kind |-> "bad", t |-> 0]
NoDate == [kind |-> "missing", t |-> 0]

Entry(title, published) == [title |-> title, published |-> published]

\* What feedparser.parse(feed_url) can return for a source: feed.entries.
FeedPool ==
    [ A |-> << Entry("a1", Aware(-23)), Entry("a2", NoDate), Entry("a3", Aware(1)) >>,
      B |-> << Entry("b1", Naive(0)), Entry("b2", BadDate), Entry("b3", Aware(-1)) >> ]

FeedIds == DOMAIN FeedPool

\* ------------------------------------------------------------------ state
VARIABLES
    now,          \* the wall clock, as a UTC instant
    tzOffset,     \* local time zone: local wall clock = instant + tzOffset
    lookbackEnv,  \* RSS_LOOKBACK_HOURS
    config,       \* state of feeds.yml
    feedFile,     \* the output feed file rss/feed.xml
    served,       \* what the HTTP server thread's last GET /feed.xml observed
    pc,           \* per job: position of its run_summary_cycle
    started,      \* per job: number of times the scheduler submitted it
    idx,          \* per job: number of feed_urls the loop has been through
    fetched,      \* per job: what feedparser met for the last feed_url
    all_entries,  \* per job: run_summary_cycle's all_entries
    summary,      \* per job: value summarize_with_llm returned
    failure,      \* per job: the error met in this cycle, if any
    calledLLM,    \* per job: model.prompt was called in this cycle
    existing,     \* per job: generate_rss_feed's parsed_feed
    doc,          \* per job: the entries of generate_rss_feed's fg
    preWrite,     \* per job: the feed file as it was when the write began
    outcome       \* per job: how the job's last cycle ended

vars == << now, tzOffset, lookbackEnv, config, feedFile, served, pc, started,
           idx, fetched, all_entries, summary, failure, calledLLM,
           existing, doc, preWrite, outcome >>

env == << tzOffset, lookbackEnv, config >>
fetchLocals == << idx, fetched, all_entries >>
llmLocals == << summary, failure, calledLLM >>
genLocals == << existing, doc, preWrite >>

NoFile == [exists |-> FALSE, complete |-> FALSE, entries |-> << >>]
NotParsed == [state |-> "none", entries |-> << >>]

\* ------------------------------------------------------------- date model
\* An aware datetime: a wall-clock reading and the UTC offset it is read in.
DateTime(wall, off) == [wall |-> wall, off |-> off]
Instant(dt) == dt.wall - dt.off

\* datetime.datetime.now().astimezone()
NowLocal == DateTime(now + tzOffset, tzOffset)

\* dt.astimezone(): same instant, read in the local zone
AsTimezone(dt) == DateTime(Instant(dt) + tzOffset, tzOffset)

\* feedparser's published_parsed: the date as a struct_time in UTC
PublishedParsed(pubDate) == Instant(pubDate)

\* time.mktime(struct_time): reads the struct_time as LOCAL wall-clock time
MkTime(st) == st - tzOffset

\* datetime.fromtimestamp(ts, tz=utc)
FromTimestampUTC(ts) == DateTime(ts, 0)

\* --------------------------------------------------- get_recent_entries
\* int(text): the value, or ValueError
ParseInt(text) ==
    CASE text = "0"  -> [ok |-> TRUE, val |-> 0]
      [] text = "-5" -> [ok |-> TRUE, val |-> -5]
      [] text = "2"  -> [ok |-> TRUE, val |-> 2]
      [] OTHER       -> [ok |-> FALSE, val |-> 0]

\* lines 34-41: int(os.environ.get("RSS_LOOKBACK_HOURS", 24)) with fallbacks
LookbackHours(envValue) ==
    IF envValue = "unset" THEN DefaultLookbackHours
    ELSE LET r == ParseInt(envValue) IN
         IF ~r.ok THEN DefaultLookbackHours
         ELSE IF r.val <= 0 THEN DefaultLookbackHours
         ELSE r.val

\* now - timedelta(hours=lookback_hours), an aware UTC datetime
Cutoff(envValue, t) == t - LookbackHours(envValue)

\* lines 59-65 for one entry: TRUE iff the entry is appended.
\* date_parser.parse raises on an unparseable string; comparing a naive
\* datetime with the aware cutoff raises TypeError; both are swallowed by
\* the except clause and the entry is skipped.
IsRecent(entry, cutoff) ==
    LET p == entry.published IN
    IF p.kind = "missing" THEN FALSE
    ELSE IF p.kind = "bad" THEN FALSE
    ELSE IF p.kind = "naive" THEN FALSE
    ELSE p.t > cutoff

RECURSIVE FilterLoop(_, _, _)
FilterLoop(entries, cutoff, recent_entries) ==
    IF entries = << >> THEN recent_entries
    ELSE FilterLoop(Tail(entries), cutoff,
                    IF IsRecent(Head(entries), cutoff)
                    THEN Append(recent_entries, Head(entries))
                    ELSE recent_entries)

\* get_recent_entries(feed_url) when feedparser yields `feed` at time t;
\* "fail" stands for any exception of lines 47-69, which returns [].
get_recent_entries(feed, envValue, t) ==
    IF feed = "fail" THEN << >>
    ELSE FilterLoop(FeedPool[feed], Cutoff(envValue, t), << >>)

\* ------------------------------------------------------ run_summary_cycle
RECURSIVE InsertDesc(_, _)
InsertDesc(sorted, e) ==
    IF sorted = << >> THEN << e >>
    ELSE IF Head(sorted).published.t >= e.published.t
         THEN << Head(sorted) >> \o InsertDesc(Tail(sorted), e)
         ELSE << e >> \o sorted

RECURSIVE SortNewestFirst(_)
\* line 384: all_entries.sort(key=published, reverse=True), a stable sort
SortNewestFirst(entries) ==
    IF entries = << >> THEN << >>
    ELSE InsertDesc(SortNewestFirst(SubSeq(entries, 1, Len(entries) - 1)),
                    entries[Len(entries)])

\* ------------------------------------------------------ generate_rss_feed
FeedLink == "file:///rss/feed.xml"

\* lines 123-134: the new entry
NewEntry == [id |-> NowLocal, link |-> FeedLink, pubDate |-> NowLocal]

\* add_entry when every call uses feedgen's default order, 'prepend'
AddEntryAlwaysPrepend(entries, fe, order) == << fe >> \o entries

\* feedgen's FeedGenerator.add_entry(order=...)
AddEntry(entries, fe, order) ==
    IF order = "prepend" THEN << fe >> \o entries ELSE Append(entries, fe)

\* lines 190-197: the date an old entry is re-emitted with
ReEmitPubDate(pubDate) ==
    AsTimezone(FromTimestampUTC(MkTime(PublishedParsed(pubDate))))

\* lines 169-197: an old entry as re-emitted
ReEmit(entry) ==
    [id |-> entry.id, link |-> entry.link, pubDate |-> ReEmitPubDate(entry.pubDate)]

\* lines 136-147: feedparser.parse of the existing file.  A missing file is
\* not parsed; a file that is not a whole document is bozo (or has no feed
\* element) and leaves parsed_feed unusable.
ParseExisting(file) ==
    IF ~file.exists THEN [state |-> "Fresh", entries |-> << >>]
    ELSE IF ~file.complete THEN [state |-> "Fresh", entries |-> << >>]
    ELSE [state |-> "Extending", entries |-> file.entries]

RECURSIVE AddOldEntries(_, _)
\* lines 168-210: the loop over parsed_feed.entries
AddOldEntries(fg, old) ==
    IF old = << >> THEN fg
    ELSE AddOldEntries(AddEntry(fg, ReEmit(Head(old)), "append"), Tail(old))

\* lines 113-217: the document built in memory
BuildFeed(parsed) ==
    LET fg == AddEntry(<< >>, NewEntry, "prepend") IN
    IF parsed.state = "Extending" THEN AddOldEntries(fg, parsed.entries) ELSE fg

\* ------------------------------------------------------------------- Init
\* The process once main() has started the scheduler: no cycle has run and
\* the output directory holds no feed file yet.
InitEnv(offsets, lookbacks, configs) ==
    /\ now = 0
    /\ tzOffset \in offsets
    /\ lookbackEnv \in lookbacks
    /\ config \in configs
    /\ feedFile = NoFile
    /\ served = "none"
    /\ pc = [j \in Jobs |-> "idle"]
    /\ started = [j \in Jobs |-> 0]
    /\ idx = [j \in Jobs |-> 0]
    /\ fetched = [j \in Jobs |-> "none"]
    /\ all_entries = [j \in Jobs |-> << >>]
    /\ summary = [j \in Jobs |-> "unset"]
    /\ failure = [j \in Jobs |-> "none"]
    /\ calledLLM = [j \in Jobs |-> FALSE]
    /\ existing = [j \in Jobs |-> NotParsed]
    /\ doc = [j \in Jobs |-> << >>]
    /\ preWrite = [j \in Jobs |-> NoFile]
    /\ outcome = [j \in Jobs |-> "never_ran"]

Init == InitEnv(TZOffsets, LookbackEnv, ConfigStates)

\* "abc", "0" and "-5" all fall back to the default, as "unset" does
\* (LookbackHours): the worker-only specification keeps "unset" and "2".
InitCycles == InitEnv(TZOffsets, {"unset", "2"}, ConfigStates)

\* ---------------------------------------------------------------- actions
TotalStarted == started["initial_summary_run"] + started["recurring_summary_run"]

\* The job's run_summary_cycle call is over: its frame is gone.
EndCycle(j, how) ==
    /\ pc' = [pc EXCEPT ![j] = "idle"]
    /\ outcome' = [outcome EXCEPT ![j] = how]
    /\ idx' = [idx EXCEPT ![j] = 0]
    /\ fetched' = [fetched EXCEPT ![j] = "none"]
    /\ all_entries' = [all_entries EXCEPT ![j] = << >>]
    /\ summary' = [summary EXCEPT ![j] = "unset"]
    /\ failure' = [failure EXCEPT ![j] = "none"]
    /\ calledLLM' = [calledLLM EXCEPT ![j] = FALSE]
    /\ existing' = [existing EXCEPT ![j] = NotParsed]
    /\ doc' = [doc EXCEPT ![j] = << >>]
    /\ preWrite' = [preWrite EXCEPT ![j] = NoFile]

\* lines 441-463, 477: the scheduler submits job j to its thread-pool
\* executor.  The startup job runs once; a job is not submitted while an
\* instance of the SAME job id is running (max_instances = 1 per job).
Fire(j) ==
    /\ pc[j] = "idle"
    /\ j = "initial_summary_run" => started[j] = 0
    /\ TotalStarted < MaxCycles
    /\ started' = [started EXCEPT ![j] = @ + 1]
    /\ pc' = [pc EXCEPT ![j] = "load"]
    /\ outcome' = [outcome EXCEPT ![j] = "running"]
    /\ UNCHANGED << now, env, feedFile, served, fetchLocals, llmLocals, genLocals >>

\* lines 360-365: load_feeds_from_yaml; every failure is sys.exit(1)
LoadFeeds(j) ==
    /\ pc[j] = "load"
    /\ IF config = "ok"
       THEN /\ pc' = [pc EXCEPT ![j] = "fetch"]
            /\ UNCHANGED failure
       ELSE /\ pc' = [pc EXCEPT ![j] = "raised"]
            /\ failure' = [failure EXCEPT ![j] = "config"]
    /\ UNCHANGED << now, env, feedFile, served, started, fetchLocals, summary,
                    calledLLM, genLocals, outcome >>

\* the loop when a failed fetch ends the cycle instead of returning []
FetchSourceAbortOnFail(j) ==
    /\ pc[j] = "fetch"
    /\ idx[j] < NumSources
    /\ \E f \in FeedIds \cup {"fail"} :
         LET entries == get_recent_entries(f, lookbackEnv, now) IN
         /\ fetched' = [fetched EXCEPT ![j] = f]
         /\ all_entries' = [all_entries EXCEPT ![j] =
                               IF entries # << >> THEN @ \o entries ELSE @]
         /\ IF f = "fail"
            THEN /\ pc' = [pc EXCEPT ![j] = "raised"]
                 /\ failure' = [failure EXCEPT ![j] = "fetch"]
            ELSE UNCHANGED << pc, failure >>
    /\ idx' = [idx EXCEPT ![j] = @ + 1]
    /\ UNCHANGED << now, env, feedFile, served, started, summary, calledLLM,
                    genLocals, outcome >>

\* lines 369-375: one iteration of the loop over feed_urls
FetchSource(j) ==
    /\ pc[j] = "fetch"
    /\ idx[j] < NumSources
    /\ \E f \in FeedIds \cup {"fail"} :
         LET entries == get_recent_entries(f, lookbackEnv, now) IN
         /\ fetched' = [fetched EXCEPT ![j] = f]
         /\ all_entries' = [all_entries EXCEPT ![j] =
                               IF entries # << >> THEN @ \o entries ELSE @]
    /\ idx' = [idx EXCEPT ![j] = @ + 1]
    /\ UNCHANGED << now, env, feedFile, served, pc, started, llmLocals,
                    genLocals, outcome >>

\* run_summary_cycle without the early return of lines 378-381
AggregateNoEmptyCheck(j) ==
    /\ pc[j] = "fetch"
    /\ idx[j] = NumSources
    /\ all_entries' = [all_entries EXCEPT ![j] = SortNewestFirst(@)]
    /\ pc' = [pc EXCEPT ![j] = "summarize"]
    /\ UNCHANGED << idx, fetched, llmLocals, genLocals, outcome >>
    /\ UNCHANGED << now, env, feedFile, served, started >>

\* lines 378-384: the empty check and the sort
Aggregate(j) ==
    /\ pc[j] = "fetch"
    /\ idx[j] = NumSources
    /\ IF all_entries[j] = << >>
       THEN /\ EndCycle(j, "no_news")
       ELSE /\ all_entries' = [all_entries EXCEPT ![j] = SortNewestFirst(@)]
            /\ pc' = [pc EXCEPT ![j] = "summarize"]
            /\ UNCHANGED << idx, fetched, llmLocals, genLocals, outcome >>
    /\ UNCHANGED << now, env, feedFile, served, started >>

\* What can happen inside summarize_with_llm (lines 253-354).
SummarizerFailures == {"unknown_model", "model_error", "render_error", "call_error"}
SummarizerResults == {"text", "empty_text"} \cup SummarizerFailures

\* line 390: summary = summarize_with_llm(all_entries)
Summarize(j) ==
    /\ pc[j] = "summarize"
    /\ \E r \in SummarizerResults :
         /\ failure' = [failure EXCEPT ![j] = IF r \in SummarizerFailures THEN r ELSE "none"]
         /\ calledLLM' = [calledLLM EXCEPT ![j] = r \in {"text", "empty_text", "call_error"}]
         /\ CASE r \in {"unknown_model", "model_error"} ->
                   \* lines 294-299: sys.exit(1); nothing is returned
                   /\ UNCHANGED summary
                   /\ pc' = [pc EXCEPT ![j] = "raised"]
              [] r \in {"render_error", "call_error"} ->
                   /\ summary' = [summary EXCEPT ![j] = "None"]
                   /\ pc' = [pc EXCEPT ![j] = "summarized"]
              [] OTHER ->
                   /\ summary' = [summary EXCEPT ![j] = r]
                   /\ pc' = [pc EXCEPT ![j] = "summarized"]
    /\ all_entries' = [all_entries EXCEPT ![j] = << >>]
    /\ UNCHANGED << now, env, feedFile, served, started, idx, fetched,
                    genLocals, outcome >>

\* lines 392-398: generate the feed only for a truthy summary
Publish(j) ==
    /\ pc[j] = "summarized"
    /\ IF summary[j] = "text"
       THEN /\ pc' = [pc EXCEPT ![j] = "generate"]
            /\ UNCHANGED << fetchLocals, llmLocals, genLocals, outcome >>
       ELSE EndCycle(j, "no_summary")
    /\ UNCHANGED << now, env, feedFile, served, started >>

\* SystemExit leaves run_summary_cycle; the executor's worker thread catches
\* it, logs the job as failed and goes on.
JobRaised(j) ==
    /\ pc[j] = "raised"
    /\ EndCycle(j, "raised")
    /\ UNCHANGED << now, env, feedFile, served, started >>

\* lines 113-217: generate_rss_feed up to the write
GenBuild(j) ==
    /\ pc[j] = "generate"
    /\ LET parsed == ParseExisting(feedFile) IN
         /\ existing' = [existing EXCEPT ![j] = parsed]
         /\ doc' = [doc EXCEPT ![j] = BuildFeed(parsed)]
    /\ pc' = [pc EXCEPT ![j] = "write"]
    /\ UNCHANGED << now, env, feedFile, served, started, fetchLocals, llmLocals,
                    preWrite, outcome >>

\* lines 220-224: fg.rss_file(feed_file_path) opens the destination itself
\* for writing, which truncates it; or the attempt fails before that.
WriteOpen(j) ==
    /\ pc[j] = "write"
    /\ \/ /\ preWrite' = [preWrite EXCEPT ![j] = feedFile]
          /\ feedFile' = [exists |-> TRUE, complete |-> FALSE, entries |-> << >>]
          /\ pc' = [pc EXCEPT ![j] = "writing"]
          /\ UNCHANGED << fetchLocals, llmLocals, existing, doc, outcome >>
       \/ /\ EndCycle(j, "write_error")
          /\ UNCHANGED feedFile
    /\ UNCHANGED << now, env, served, started >>

\* lines 224-225: the serialized document reaches the file and it is closed
WriteFinish(j) ==
    /\ pc[j] = "writing"
    /\ feedFile' = [exists |-> TRUE, complete |-> TRUE, entries |-> doc[j]]
    /\ EndCycle(j, "written")
    /\ UNCHANGED << now, env, served, started >>

\* lines 226-227: the write raises after the destination was opened; the
\* file keeps whatever prefix of the document had reached it.
WriteFail(j) ==
    /\ pc[j] = "writing"
    /\ \E k \in 0 .. (Len(doc[j]) - 1) :
         feedFile' = [exists |-> TRUE, complete |-> FALSE, entries |-> SubSeq(doc[j], 1, k)]
    /\ EndCycle(j, "write_error")
    /\ UNCHANGED << now, env, served, started >>

\* lines 232-245: the server thread answers GET /feed.xml from the file
ServerRead ==
    /\ served' = IF ~feedFile.exists THEN "404"
                 ELSE IF feedFile.complete THEN "complete" ELSE "partial"
    /\ UNCHANGED << now, env, feedFile, pc, started, fetchLocals, llmLocals,
                    genLocals, outcome >>

\* an hour passes
Tick ==
    /\ now < MaxTime
    /\ now' = now + 1
    /\ UNCHANGED << env, feedFile, served, pc, started, fetchLocals, llmLocals,
                    genLocals, outcome >>

\* One step of one scheduler job.
JobStep(j) ==
    \/ Fire(j)
    \/ LoadFeeds(j)
    \/ FetchSource(j)
    \/ Aggregate(j)
    \/ Summarize(j)
    \/ Publish(j)
    \/ JobRaised(j)
    \/ GenBuild(j)
    \/ WriteOpen(j)
    \/ WriteFinish(j)
    \/ WriteFail(j)

\* The scheduler and its worker threads, without the HTTP server thread.
NextCycles ==
    \/ \E j \in Jobs : JobStep(j)
    \/ Tick

SpecCycles == InitCycles /\ [][NextCycles]_vars

Next ==
    \/ \E j \in Jobs : Fire(j)
    \/ \E j \in Jobs : LoadFeeds(j)
    \/ \E j \in Jobs : FetchSource(j)
    \/ \E j \in Jobs : Aggregate(j)
    \/ \E j \in Jobs : Summarize(j)
    \/ \E j \in Jobs : Publish(j)
    \/ \E j \in Jobs : JobRaised(j)
    \/ \E j \in Jobs : GenBuild(j)
    \/ \E j \in Jobs : WriteOpen(j)
    \/ \E j \in Jobs : WriteFinish(j)
    \/ \E j \in Jobs : WriteFail(j)
    \/ ServerRead
    \/ Tick

Spec == Init /\ [][Next]_vars

\* ================================================================ claims

\* C1: when generate_rss_feed's write of the output feed fails, at any point
\* of the write, a previously published feed file has afterwards exactly the
\* content it had before the attempt.
C1_FailedWriteKeepsFile ==
    [][\A j \in Jobs :
         /\ (pc[j] = "write" /\ pc'[j] = "idle" /\ outcome'[j] = "write_error")
               => feedFile' = feedFile
         /\ (pc[j] = "writing" /\ pc'[j] = "idle" /\ outcome'[j] = "write_error"
               /\ preWrite[j].complete)
               => feedFile' = preWrite[j]]_vars

\* C2: every read of feed.xml by the server thread observes a complete feed
\* document (the previous one or the new one), never a partially written one.
C2_ReadsSeeWholeFeed == served # "partial"

\* C3: at no time are two executions of run_summary_cycle in progress.
C3_CyclesSerialized ==
    Cardinality({j \in Jobs : pc[j] # "idle"}) <= 1

\* C4: whenever the Summarizer fails in a cycle, for any reason,
\* summarize_with_llm returns None to run_summary_cycle.
C4_FailureReturnsNone ==
    \A j \in Jobs : failure[j] \in SummarizerFailures => summary[j] = "None"

\* C5: a cycle whose aggregate is empty returns without calling
\* summarize_with_llm or generate_rss_feed: it made no LLM call, it goes from
\* the end of the fetch loop straight to its end, and the output file is as
\* it was; a cycle that is summarizing has a non-empty aggregate.
C5_EmptyAggregateSkips ==
    [][\A j \in Jobs :
         /\ (pc[j] = "fetch" /\ idx[j] = NumSources /\ all_entries[j] = << >>
               /\ pc'[j] # "fetch")
               => /\ pc'[j] = "idle"
                  /\ outcome'[j] = "no_news"
                  /\ ~calledLLM[j] /\ ~calledLLM'[j]
                  /\ feedFile' = feedFile
         /\ pc[j] = "summarize" => all_entries[j] # << >>]_vars

C5_Witness ==
    \E j \in Jobs :
        /\ outcome[j] = "no_news"
        /\ feedFile.complete
        /\ Len(feedFile.entries) >= 1

\* C6: generate_rss_feed against an existing feed that parses and holds N
\* entries builds, and on a successful write leaves in the file, exactly N+1
\* entries: the new summary entry (dated now) first, then the N prior
\* entries in their previous order with link and id unchanged.
C6_MergePrepends ==
    [][\A j \in Jobs :
         /\ (pc[j] = "generate" /\ pc'[j] = "write" /\ feedFile.exists /\ feedFile.complete)
               => LET old == feedFile.entries
                      new == doc'[j]
                  IN /\ Len(new) = Len(old) + 1
                     /\ Instant(new[1].pubDate) = now
                     /\ new[1].id = new[1].pubDate
                     /\ new[1].link = FeedLink
                     /\ \A i \in 1 .. Len(old) :
                          /\ new[i + 1].id = old[i].id
                          /\ new[i + 1].link = old[i].link
         /\ (pc[j] = "writing" /\ pc'[j] = "idle" /\ outcome'[j] = "written")
               => /\ feedFile'.exists /\ feedFile'.complete
                  /\ feedFile'.entries = doc[j]]_vars

C6_Witness ==
    \E j \in Jobs :
        /\ outcome[j] = "written"
        /\ feedFile.complete
        /\ Len(feedFile.entries) >= 3
        /\ feedFile.entries[2].id # feedFile.entries[3].id

\* C7: the entries of a completely written output feed are in descending
\* (non-increasing) publication-time order.
C7_DescendingOrder ==
    feedFile.complete =>
        \A i \in 1 .. (Len(feedFile.entries) - 1) :
            Instant(feedFile.entries[i].pubDate) >= Instant(feedFile.entries[i + 1].pubDate)

\* C8: a prior entry is re-emitted with a publication date that denotes the
\* same instant as its original publication date.
C8_ReEmitKeepsInstant ==
    [][\A j \in Jobs :
         (pc[j] = "generate" /\ pc'[j] = "write" /\ feedFile.exists /\ feedFile.complete)
            => \A i \in 1 .. Len(feedFile.entries) :
                 Instant(doc'[j][i + 1].pubDate) = Instant(feedFile.entries[i].pubDate)]_vars

\* C9: a source whose fetch fails does not end the cycle: the loop goes on,
\* the failed source adds nothing, every other source adds exactly its
\* recency-filtered entries, the loop is left only after every source was
\* tried, the sort keeps the aggregate's entries, and a non-empty aggregate
\* goes to summarization.
SameEntries(s, t) ==
    /\ Len(s) = Len(t)
    /\ \A e \in {s[i] : i \in 1 .. Len(s)} \cup {t[i] : i \in 1 .. Len(t)} :
         Cardinality({i \in 1 .. Len(s) : s[i] = e}) = Cardinality({i \in 1 .. Len(t) : t[i] = e})

C9_FailedSourceSkipped ==
    [][\A j \in Jobs :
         /\ (pc[j] = "fetch" /\ idx'[j] = idx[j] + 1)
               => /\ pc'[j] = "fetch"
                  /\ all_entries'[j] =
                        all_entries[j] \o (IF fetched'[j] = "fail" THEN << >>
                                           ELSE get_recent_entries(fetched'[j], lookbackEnv, now))
         /\ (pc[j] = "fetch" /\ pc'[j] # "fetch")
               => /\ idx[j] = NumSources
                  /\ all_entries[j] # << >>
                        => /\ pc'[j] = "summarize"
                           /\ SameEntries(all_entries'[j], all_entries[j])]_vars

C9_Witness ==
    \E j \in Jobs :
        /\ pc[j] = "summarize"
        /\ fetched[j] = "fail"
        /\ all_entries[j] # << >>

\* C10: get_recent_entries returns exactly the entries, in feed order, whose
\* publication time is parseable and strictly after now - lookback, where a
\* lookback that is not a positive integer counts as 24 hours.
ClaimedLookback(envValue) ==
    IF envValue \in {"unset", "abc"} THEN 24
    ELSE IF ParseInt(envValue).val <= 0 THEN 24 ELSE ParseInt(envValue).val

ClaimedRecent(feed, envValue, t) ==
    LET Test(e) == /\ e.published.kind \in {"aware", "naive"}
                   /\ e.published.t > t - ClaimedLookback(envValue)
    IN SelectSeq(feed, Test)

C10_RecentExactly ==
    [][\A j \in Jobs :
         (pc[j] = "fetch" /\ idx'[j] = idx[j] + 1 /\ fetched'[j] # "fail")
            => all_entries'[j] =
                  all_entries[j] \o ClaimedRecent(FeedPool[fetched'[j]], lookbackEnv, now)]_vars

\* C11: when feeds.yml is missing, is not readable YAML or lists no valid
\* URL, the process terminates instead of staying alive: once a cycle has
\* met the configuration error, no job is submitted any more and the HTTP
\* server answers no further request.
C11_BadConfigStopsProcess ==
    [][(config # "ok" /\ \E j \in Jobs : outcome[j] = "raised")
          => (started' = started /\ served' = served)]_vars

\* C12: no entry published in the output feed is ever removed: when a
\* cycle's write ends, successfully or not, the file holds every entry
\* identifier it held when the write began, and at least as many entries.
IdSet(file) == {file.entries[i].id : i \in 1 .. Len(file.entries)}

C12_NoEntryRemoved ==
    [][\A j \in Jobs :
         (pc[j] = "writing" /\ pc'[j] = "idle")
            => /\ IdSet(preWrite[j]) \subseteq IdSet(feedFile')
               /\ Len(feedFile'.entries) >= Len(preWrite[j].entries)]_vars

====
